---- MODULE Spec2Model ----
(***************************************************************************)
(* Client-side contract of the FRA Atlas frontend:                         *)
(*   - the token store hook (frontend/src/hooks/useAuth.js),               *)
(*   - the shared axios client with its request interceptor (part_001),    *)
(*   - the analysis demo script: analyzeLocation / displayResults and the  *)
(*     click handler (part_000).                                           *)
(* JavaScript values are tagged records so that null, undefined, strings,  *)
(* numbers, objects and arrays stay distinct.                              *)
(***************************************************************************)
EXTENDS Integers, Sequences, FiniteSets, TLC

VARIABLES
    localStorage,   \* browser storage shared by all tabs: key -> stored string
    got,            \* per tab: the value the tab's latest getToken() returned
    last,           \* the operation executed most recently (token store / api client)
    prev,           \* the operation executed before that one
    calls,          \* analyzeLocation invocations, in the order they were issued
    posts,          \* requests handed to fetch(), in dispatch order
    button,         \* 'analyze-button': "absent", "present" or "listening" (click listener bound)
    domLoaded,      \* whether DOMContentLoaded has fired
    hasContainer,   \* whether an element with id 'results-container' exists
    innerHTML,      \* innerHTML of that element
    console,        \* console output, in order
    rendered        \* ids of the calls whose displayResults assigned innerHTML, in order

vars == <<localStorage, got, last, prev, calls, posts, button, domLoaded, hasContainer, innerHTML, console, rendered>>
authVars == <<localStorage, got, last, prev>>
demoVars == <<calls, posts, button, domLoaded, hasContainer, innerHTML, console, rendered>>

-----------------------------------------------------------------------------
(* Bounds *)

NumTabs == 2
MaxCalls == 2

Tabs == 1..NumTabs

-----------------------------------------------------------------------------
(* JavaScript values *)

JsNull == [type |-> "null"]
JsUndefined == [type |-> "undefined"]
Str(s) == [type |-> "string", s |-> s]

\* ToString abstract operation on the value types a caller passes to setToken
JsToString(v) ==
    CASE v.type = "string" -> v.s
      [] v.type = "null" -> "null"
      [] v.type = "undefined" -> "undefined"

\* ToBoolean abstract operation (the test of `if (token)`)
ToBoolean(v) ==
    CASE v.type = "string" -> v.s # ""
      [] v.type = "null" -> FALSE
      [] v.type = "undefined" -> FALSE
      [] OTHER -> TRUE

-----------------------------------------------------------------------------
(* Web Storage *)

TOKEN_KEY == "fra_token"

\* Storage.getItem: the stored string, or null when the key is absent
getItem(w, key) ==
    IF key \in DOMAIN localStorage THEN Str(localStorage[key]) ELSE JsNull

\* Storage.setItem: stores the string conversion of value, replacing any old value
setItem(key, value) ==
    [k \in (DOMAIN localStorage) \cup {key} |->
        IF k = key THEN JsToString(value) ELSE localStorage[k]]

\* Storage.removeItem: drops the key; nothing happens when it is absent
removeItem(key) ==
    [k \in (DOMAIN localStorage) \ {key} |-> localStorage[k]]

-----------------------------------------------------------------------------
(* Token store: useAuth() *)

\* values passed to setToken; no validation of the token's shape
TokenArgs == {Str(""), Str("tokA"), Str("tokB"), JsNull}

NotCalled == [type |-> "notcalled"]

\* setToken: localStorage.setItem("fra_token", token); yields the new storage
\* faulty variant: keeps a value that is already stored
setTokenIfAbsent(w, token) ==
    IF TOKEN_KEY \in DOMAIN localStorage THEN localStorage ELSE setItem(TOKEN_KEY, token)
setToken(w, token) == setItem(TOKEN_KEY, token)

\* clearToken: localStorage.removeItem("fra_token"); yields the new storage
\* faulty variant: stores null (converted to "null") instead of removing
clearTokenAsNull(w) == setItem(TOKEN_KEY, JsNull)
clearToken(w) == removeItem(TOKEN_KEY)

\* getToken: localStorage.getItem("fra_token"), read on every call
\* faulty variant: answers from the copy of an earlier read
getTokenCached(w) == IF got[w] # NotCalled THEN got[w] ELSE getItem(w, TOKEN_KEY)
getToken(w) == getItem(w, TOKEN_KEY)

SetToken(w, token) ==
    /\ localStorage' = setToken(w, token)
    /\ last' = [op |-> "setToken", tab |-> w, arg |-> token, before |-> getItem(w, TOKEN_KEY)]
    /\ prev' = last
    /\ UNCHANGED <<got, demoVars>>

ClearToken(w) ==
    /\ localStorage' = clearToken(w)
    /\ last' = [op |-> "clearToken", tab |-> w, before |-> getItem(w, TOKEN_KEY)]
    /\ prev' = last
    /\ UNCHANGED <<got, demoVars>>

GetToken(w) ==
    /\ got' = [got EXCEPT ![w] = getToken(w)]
    /\ last' = [op |-> "getToken", tab |-> w, ret |-> getToken(w)]
    /\ prev' = last
    /\ UNCHANGED <<localStorage, demoVars>>

-----------------------------------------------------------------------------
(* API client: axios instance with a request interceptor *)

\* header names -> values; an axios.create({baseURL}) instance sets no Authorization default
NoHeaders == [h \in {} |-> ""]
ApiUrls == {"/claims", "/auth/login"}

SetHeader(headers, name, value) ==
    [h \in (DOMAIN headers) \cup {name} |-> IF h = name THEN value ELSE headers[h]]

\* faulty variant: sets the header without testing the token
interceptorAlways(w, config) ==
    LET token == getItem(w, TOKEN_KEY)
    IN  [config EXCEPT !.headers =
            SetHeader(@, "Authorization", "Bearer " \o JsToString(token))]
interceptor(w, config) ==
    LET token == getItem(w, TOKEN_KEY)
    IN  IF ToBoolean(token)
        THEN [config EXCEPT !.headers =
                SetHeader(@, "Authorization", "Bearer " \o JsToString(token))]
        ELSE config

\* api.request(...): the interceptor runs synchronously, then the request is dispatched
ApiRequest(w, url) ==
    /\ last' = [op |-> "request", tab |-> w,
                config |-> interceptor(w, [url |-> url, headers |-> NoHeaders])]
    /\ prev' = last
    /\ UNCHANGED <<localStorage, got, demoVars>>

-----------------------------------------------------------------------------
(* Strings as character sequences, numbers as decimals *)

\* a JavaScript string whose characters the program inspects: a tuple of
\* one-character strings
Digits == {"0", "1", "2", "3", "4", "5", "6", "7", "8", "9"}
DigitVal == [c \in Digits |->
    CASE c = "0" -> 0 [] c = "1" -> 1 [] c = "2" -> 2 [] c = "3" -> 3 [] c = "4" -> 4
      [] c = "5" -> 5 [] c = "6" -> 6 [] c = "7" -> 7 [] c = "8" -> 8 [] c = "9" -> 9]
WhiteSpace == {" "}

\* a finite number is mant / 10^scale with no trailing zero in the fraction
NaN == [type |-> "number", nan |-> TRUE]
Num(m, k) == [type |-> "number", nan |-> FALSE, mant |-> m, scale |-> k]

RECURSIVE Pow10(_)
Pow10(k) == IF k = 0 THEN 1 ELSE 10 * Pow10(k - 1)

RECURSIVE Normalize(_, _)
Normalize(m, k) ==
    IF k > 0 /\ m % 10 = 0 THEN Normalize(m \div 10, k - 1) ELSE Num(m, k)

\* number of leading white space characters of s from index p on
RECURSIVE SkipWhiteSpace(_, _)
SkipWhiteSpace(s, p) ==
    IF p <= Len(s) /\ s[p] \in WhiteSpace THEN SkipWhiteSpace(s, p + 1) ELSE p

\* length of the run of decimal digits of s that starts at index p
RECURSIVE DigitRun(_, _)
DigitRun(s, p) ==
    IF p <= Len(s) /\ s[p] \in Digits THEN 1 + DigitRun(s, p + 1) ELSE 0

\* value of the n digits of s that start at index p, appended to acc
RECURSIVE DigitsValue(_, _, _, _)
DigitsValue(s, p, n, acc) ==
    IF n = 0 THEN acc ELSE DigitsValue(s, p + 1, n - 1, 10 * acc + DigitVal[s[p]])

\* parseFloat: skips leading white space, then reads the longest prefix that is
\* a decimal literal (sign, digits, fraction); NaN when there is none.  Exponent
\* parts and "Infinity" do not occur in the strings enumerated here.
\* faulty variant: Number()-like, NaN unless the whole string is a literal
parseFloatStrict(s) ==
    LET p0 == SkipWhiteSpace(s, 1)
        neg == p0 <= Len(s) /\ s[p0] = "-"
        p1 == IF p0 <= Len(s) /\ s[p0] \in {"+", "-"} THEN p0 + 1 ELSE p0
        ni == DigitRun(s, p1)
        dot == p1 + ni <= Len(s) /\ s[p1 + ni] = "."
        nf == IF dot THEN DigitRun(s, p1 + ni + 1) ELSE 0
        m == DigitsValue(s, p1 + ni + 1, nf, DigitsValue(s, p1, ni, 0))
        consumed == p1 + ni + (IF dot /\ (ni > 0 \/ nf > 0) THEN 1 + nf ELSE 0)
    IN  IF (ni = 0 /\ nf = 0) \/ consumed <= Len(s) THEN NaN
        ELSE Normalize(IF neg THEN 0 - m ELSE m, nf)
parseFloat(s) ==
    LET p0 == SkipWhiteSpace(s, 1)
        neg == p0 <= Len(s) /\ s[p0] = "-"
        p1 == IF p0 <= Len(s) /\ s[p0] \in {"+", "-"} THEN p0 + 1 ELSE p0
        ni == DigitRun(s, p1)
        dot == p1 + ni <= Len(s) /\ s[p1 + ni] = "."
        nf == IF dot THEN DigitRun(s, p1 + ni + 1) ELSE 0
        m == DigitsValue(s, p1 + ni + 1, nf, DigitsValue(s, p1, ni, 0))
    IN  IF ni = 0 /\ nf = 0 THEN NaN
        ELSE Normalize(IF neg THEN 0 - m ELSE m, nf)

\* the digits of a non-negative integer, left-padded with zeros to width w
RECURSIVE PadDigits(_, _)
PadDigits(n, w) ==
    IF w = 0 THEN "" ELSE PadDigits(n \div 10, w - 1) \o ToString(n % 10)

\* Number::toString for the finite decimals above
NumberToString(n) ==
    IF n.nan THEN "NaN"
    ELSE LET a == IF n.mant < 0 THEN 0 - n.mant ELSE n.mant
             p == Pow10(n.scale)
         IN  (IF n.mant < 0 THEN "-" ELSE "")
             \o ToString(a \div p)
             \o (IF n.scale > 0 THEN "." \o PadDigits(a % p, n.scale) ELSE "")

\* JSON.stringify of a number: a non-finite number is written as null
SerializeNumber(n) == IF n.nan THEN "null" ELSE NumberToString(n)

\* JSON.stringify of the payload object, keys in insertion order
JSONstringify(payload) ==
    "{\"latitude\":" \o SerializeNumber(payload.latitude)
    \o ",\"longitude\":" \o SerializeNumber(payload.longitude)
    \o ",\"radius_km\":" \o SerializeNumber(payload.radius_km) \o "}"

-----------------------------------------------------------------------------
(* Response bodies and the values displayResults reads *)

Obj(props) == [type |-> "object", props |-> props]
Arr(items) == [type |-> "array", items |-> items]
NoProps == [k \in {} |-> JsUndefined]
TypeError == [type |-> "throw", error |-> "TypeError"]

IsThrow(v) == v.type = "throw"

\* property read v[k]: throws on null and undefined, undefined for a missing key
GetProp(v, k) ==
    IF v.type \in {"throw"} THEN v
    ELSE IF v.type \in {"null", "undefined"} THEN TypeError
    ELSE IF v.type = "object" /\ k \in DOMAIN v.props THEN v.props[k]
    ELSE JsUndefined

\* string conversion of a value interpolated into a template literal
Interpolate(v) ==
    CASE v.type = "string" -> v.s
      [] v.type = "number" -> NumberToString(v)
      [] v.type = "null" -> "null"
      [] v.type = "undefined" -> "undefined"
      [] OTHER -> "[object Object]"

\* actions.map(action => `<li>${action}</li>`).join('')
RECURSIVE MapJoin(_)
MapJoin(items) ==
    IF items = <<>> THEN ""
    ELSE "<li>" \o Interpolate(Head(items)) \o "</li>" \o MapJoin(Tail(items))

\* the template literal of displayResults (white space between the elements
\* left out): its text, or the TypeError its evaluation throws
Template(data) ==
    LET fra == GetProp(data, "fra_analysis")
        suit == GetProp(fra, "overall_suitability")
        score == GetProp(fra, "total_score")
        rec == GetProp(data, "recommendations")
        actions == GetProp(rec, "immediate_actions")
    IN  IF IsThrow(suit) \/ IsThrow(score) \/ IsThrow(actions) THEN TypeError
        ELSE IF actions.type # "array" THEN TypeError
        ELSE Str("<h2>Analysis Results</h2>"
                 \o "<p>Overall Suitability: " \o Interpolate(suit) \o "</p>"
                 \o "<p>Total Score: " \o Interpolate(score) \o "</p>"
                 \o "<h3>Recommendations</h3>"
                 \o "<ul>" \o MapJoin(actions.items) \o "</ul>")

\* displayResults(data): what it throws (or nothing) and the innerHTML it leaves
\* faulty variant: evaluates the template before looking for the container
displayResultsEager(data) ==
    LET t == Template(data)
    IN  IF IsThrow(t) THEN [threw |-> TRUE, assigned |-> FALSE, html |-> innerHTML]
        ELSE IF hasContainer THEN [threw |-> FALSE, assigned |-> TRUE, html |-> t.s]
        ELSE [threw |-> FALSE, assigned |-> FALSE, html |-> innerHTML]
displayResults(data) ==
    IF hasContainer
    THEN LET t == Template(data)
         IN  IF IsThrow(t) THEN [threw |-> TRUE, assigned |-> FALSE, html |-> innerHTML]
             ELSE [threw |-> FALSE, assigned |-> TRUE, html |-> t.s]
    ELSE [threw |-> FALSE, assigned |-> FALSE, html |-> innerHTML]

\* parsed bodies the server may answer call i with; InvalidJson is a body that
\* response.json() cannot parse
InvalidJson == [type |-> "invalid"]
FraOf(i) == Obj([overall_suitability |-> Str("High"), total_score |-> Num(i, 0)])
RecOf(i) == Obj([immediate_actions |-> Arr(<<Str("survey"), Str("verify")>>)])
FullBody(i) == Obj([fra_analysis |-> FraOf(i), recommendations |-> RecOf(i)])
SparseBody == Obj([fra_analysis |-> Obj(NoProps),
                   recommendations |-> Obj([immediate_actions |-> Arr(<<>>)])])
NoFraBody(i) == Obj([recommendations |-> RecOf(i)])
NoRecBody(i) == Obj([fra_analysis |-> FraOf(i)])
NoActionsBody(i) == Obj([fra_analysis |-> FraOf(i), recommendations |-> Obj(NoProps)])

\* bodies that lack a field the renderer dereferences
LackingBodies(i) == {NoFraBody(i), NoRecBody(i), NoActionsBody(i), JsNull}
Bodies(i) == {FullBody(i), SparseBody, InvalidJson} \cup LackingBodies(i)

Statuses == {200, 404, 500}
\* Response.ok
\* faulty variant: the status is not checked
OkAlways(status) == TRUE
Ok(status) == status >= 200 /\ status <= 299

\* what fetch() settles with: a rejection (transport failure) or a response;
\* the body of a non-2xx response is never read
NoResponse == [kind |-> "none"]
Rejected == [kind |-> "reject"]
FetchOutcomes(i) ==
    {Rejected}
    \cup {[kind |-> "response", status |-> 200, body |-> b] : b \in Bodies(i)}
    \cup {[kind |-> "response", status |-> st, body |-> InvalidJson] : st \in Statuses \ {200}}

-----------------------------------------------------------------------------
(* analyzeLocation *)

API_URL == "http://127.0.0.1:5000/api/analyze"

\* the arguments of fetch(API_URL, {...}) for a payload
\* faulty variant: the request passes through the API client interceptor
fetchRequestViaApi(i, payload) ==
    interceptor(1, [call |-> i, url |-> API_URL, method |-> "POST",
                    headers |-> [h \in {"Content-Type"} |-> "application/json"],
                    body |-> JSONstringify(payload)])
fetchRequest(i, payload) ==
    [call |-> i, url |-> API_URL, method |-> "POST",
     headers |-> [h \in {"Content-Type"} |-> "application/json"],
     body |-> JSONstringify(payload)]

\* the catch block: logs the error; the async function then completes normally
\* faulty variant: the render call sits outside the try block
catchOnlyFetch(i, stage, message) ==
    IF stage = "render"
    THEN [promise |-> "rejected", entries |-> <<>>]
    ELSE [promise |-> "fulfilled",
          entries |-> <<[level |-> "error", call |-> i, stage |-> stage, message |-> message]>>]
catchBlock(i, stage, message) ==
    [promise |-> "fulfilled",
     entries |-> <<[level |-> "error", call |-> i, stage |-> stage, message |-> message]>>]

\* analyzeLocation up to its first await: builds the payload and calls fetch
AnalyzeLocation(latitude, longitude, radius) ==
    LET i == Len(calls) + 1
        payload == [latitude |-> parseFloat(latitude),
                    longitude |-> parseFloat(longitude),
                    radius_km |-> parseFloat(radius)]
    IN  /\ posts' = Append(posts, fetchRequest(i, payload))
        /\ calls' = Append(calls, [args |-> <<latitude, longitude, radius>>,
                                   payload |-> payload,
                                   pc |-> "awaitFetch",
                                   response |-> NoResponse,
                                   displayed |-> FALSE,
                                   promise |-> "pending"])
        /\ UNCHANGED <<authVars, button, domLoaded, hasContainer, innerHTML, console, rendered>>

\* the state analyzeLocation leaves when it resumes after `await fetch(...)`
afterFetch(i, outcome) ==
    IF outcome.kind = "reject"
    THEN LET c == catchBlock(i, "fetch", "TypeError: Failed to fetch")
         IN  [call |-> [calls[i] EXCEPT !.pc = "done", !.response = outcome,
                                        !.promise = c.promise],
              entries |-> c.entries]
    ELSE IF ~Ok(outcome.status)
    THEN LET c == catchBlock(i, "status",
                             "HTTP error! status: " \o ToString(outcome.status))
         IN  [call |-> [calls[i] EXCEPT !.pc = "done", !.response = outcome,
                                        !.promise = c.promise],
              entries |-> c.entries]
    ELSE [call |-> [calls[i] EXCEPT !.pc = "awaitJson", !.response = outcome],
          entries |-> <<>>]

ResumeAfterFetch(i, outcome) ==
    /\ calls[i].pc = "awaitFetch"
    /\ LET r == afterFetch(i, outcome)
       IN  /\ calls' = [calls EXCEPT ![i] = r.call]
           /\ console' = console \o r.entries
    /\ UNCHANGED <<authVars, posts, button, domLoaded, hasContainer, innerHTML, rendered>>

\* the state analyzeLocation leaves when it resumes after `await response.json()`
\* faulty variant: a response to a call that is no longer the latest is dropped
afterJsonLatestOnly(i, body) ==
    IF body = InvalidJson
    THEN [promise |-> "fulfilled", displayed |-> FALSE, assigned |-> FALSE, html |-> innerHTML,
          entries |-> <<[level |-> "error", call |-> i, stage |-> "json", message |-> "SyntaxError"]>>]
    ELSE IF i < Len(calls)
    THEN [promise |-> "fulfilled", displayed |-> FALSE, assigned |-> FALSE, html |-> innerHTML,
          entries |-> <<[level |-> "log", call |-> i]>>]
    ELSE LET d == displayResults(body)
         IN  [promise |-> "fulfilled", displayed |-> TRUE, assigned |-> d.assigned, html |-> d.html,
              entries |-> <<[level |-> "log", call |-> i]>>]
afterJson(i, body) ==
    IF body = InvalidJson
    THEN LET c == catchBlock(i, "json", "SyntaxError")
         IN  [promise |-> c.promise, displayed |-> FALSE, assigned |-> FALSE,
              html |-> innerHTML, entries |-> c.entries]
    ELSE LET d == displayResults(body)
             c == catchBlock(i, "render", "TypeError")
         IN  IF d.threw
             THEN [promise |-> c.promise, displayed |-> TRUE, assigned |-> FALSE,
                   html |-> innerHTML,
                   entries |-> <<[level |-> "log", call |-> i]>> \o c.entries]
             ELSE [promise |-> "fulfilled", displayed |-> TRUE, assigned |-> d.assigned,
                   html |-> d.html,
                   entries |-> <<[level |-> "log", call |-> i]>>]

ResumeAfterJson(i) ==
    /\ calls[i].pc = "awaitJson"
    /\ LET r == afterJson(i, calls[i].response.body)
       IN  /\ calls' = [calls EXCEPT ![i].pc = "done",
                                     ![i].promise = r.promise,
                                     ![i].displayed = r.displayed]
           /\ console' = console \o r.entries
           /\ innerHTML' = r.html
           /\ rendered' = IF r.assigned THEN Append(rendered, i) ELSE rendered
    /\ UNCHANGED <<authVars, posts, button, domLoaded, hasContainer>>

\* the click listener registered on 'analyze-button': literal field values
ClickLat == <<"2", "3", ".", "3", "4", "4", "1">>
ClickLng == <<"8", "5", ".", "3", "0", "9", "6">>
ClickRad == <<"2", ".", "0">>

\* the DOMContentLoaded listener: binds the click listener when the button exists
DOMContentLoaded ==
    /\ ~domLoaded
    /\ domLoaded' = TRUE
    /\ button' = (IF button = "present" THEN "listening" ELSE button)
    /\ UNCHANGED <<authVars, calls, posts, hasContainer, innerHTML, console, rendered>>

Click ==
    /\ button = "listening"
    /\ Len(calls) < MaxCalls
    /\ AnalyzeLocation(ClickLat, ClickLng, ClickRad)

\* strings a caller may pass to analyzeLocation
InputStrings ==
    {ClickLat, ClickRad, <<"a", "b", "c">>, <<>>, <<"1", "2", "a">>, <<"-", ".", "5">>}

DirectCall ==
    /\ calls = <<>>
    /\ \E latitude, longitude, radius \in InputStrings :
          AnalyzeLocation(latitude, longitude, radius)

-----------------------------------------------------------------------------
StorageStates ==
    {[k \in {} |-> ""]} \cup {[k \in {TOKEN_KEY} |-> JsToString(v)] : v \in TokenArgs}

\* content of the results container before any analysis was rendered
InitialHTML == "<p>No analysis yet</p>"

\* the storage outlives the page: at load it holds nothing or an earlier token
InitAuth ==
    /\ localStorage \in StorageStates
    /\ got = [w \in Tabs |-> NotCalled]
    /\ last = [op |-> "load", tab |-> 0]
    /\ prev = [op |-> "load", tab |-> 0]
    /\ calls = <<>>
    /\ posts = <<>>
    /\ button = "present"
    /\ domLoaded = FALSE
    /\ hasContainer = TRUE
    /\ innerHTML = InitialHTML
    /\ console = <<>>
    /\ rendered = <<>>

NextAuth ==
    \/ \E w \in Tabs, token \in TokenArgs : SetToken(w, token)
    \/ \E w \in Tabs : ClearToken(w)
    \/ \E w \in Tabs : GetToken(w)
    \/ \E w \in Tabs, url \in ApiUrls : ApiRequest(w, url)

SpecAuth == InitAuth /\ [][NextAuth]_vars

InitDemo ==
    /\ localStorage \in StorageStates
    /\ got = [w \in Tabs |-> NotCalled]
    /\ last = [op |-> "load", tab |-> 0]
    /\ prev = [op |-> "load", tab |-> 0]
    /\ calls = <<>>
    /\ posts = <<>>
    /\ button \in {"absent", "present"}
    /\ domLoaded = FALSE
    /\ hasContainer \in BOOLEAN
    /\ innerHTML = (IF hasContainer THEN InitialHTML ELSE "")
    /\ console = <<>>
    /\ rendered = <<>>

Resume ==
    \/ \E i \in 1..Len(calls) : \E outcome \in FetchOutcomes(i) : ResumeAfterFetch(i, outcome)
    \/ \E i \in 1..Len(calls) : ResumeAfterJson(i)

NextAnalyze == DOMContentLoaded \/ Click \/ Resume

SpecAnalyze == InitDemo /\ [][NextAnalyze]_vars

NextCoerce == DirectCall \/ Resume

SpecCoerce == InitDemo /\ [][NextCoerce]_vars

-----------------------------------------------------------------------------
(* Properties of the token store and the API client (checked under SpecAuth) *)

\* the string stored under the token key, "" when nothing is stored
StoredToken == IF TOKEN_KEY \in DOMAIN localStorage THEN localStorage[TOKEN_KEY] ELSE ""
HasToken == TOKEN_KEY \in DOMAIN localStorage /\ localStorage[TOKEN_KEY] # ""
NonEmptyString(v) == v.type = "string" /\ v.s # ""

\* C1: a request sent through the API client carries Authorization: Bearer <token>
\* with exactly the stored value when a token is stored; when none is stored the
\* request is still dispatched and has no Authorization header at all (never an
\* empty one).
C1_BearerHeader ==
    last.op = "request" =>
        /\ last.config.url \in ApiUrls
        /\ HasToken =>
              /\ "Authorization" \in DOMAIN last.config.headers
              /\ last.config.headers["Authorization"] = "Bearer " \o StoredToken
        /\ ~HasToken => "Authorization" \notin DOMAIN last.config.headers
        /\ "Authorization" \in DOMAIN last.config.headers =>
              last.config.headers["Authorization"] # "Bearer "

C1_Witness ==
    /\ last.op = "request"
    /\ HasToken
    /\ "Authorization" \in DOMAIN last.config.headers
    /\ last.config.headers["Authorization"] = "Bearer tokA"

\* C2: setToken(T) with a non-empty string T, whatever was stored before, stores
\* exactly T, and a getToken() that follows it returns exactly T.
C2_SetThenGet ==
    /\ (last.op = "setToken" /\ NonEmptyString(last.arg)) =>
          (TOKEN_KEY \in DOMAIN localStorage /\ localStorage[TOKEN_KEY] = last.arg.s)
    /\ (last.op = "getToken" /\ prev.op = "setToken" /\ NonEmptyString(prev.arg)) =>
          last.ret = prev.arg

C2_Witness ==
    /\ last.op = "getToken"
    /\ prev.op = "setToken"
    /\ prev.before = Str("tokA")
    /\ prev.arg = Str("tokB")
    /\ last.ret = Str("tokB")

\* C3: after clearToken() nothing is stored and a getToken() that follows returns
\* null, whatever was stored before; clearing when nothing is stored, or twice in
\* a row, leaves the storage without a token.
C3_ClearThenGet ==
    /\ last.op = "clearToken" => TOKEN_KEY \notin DOMAIN localStorage
    /\ (last.op = "getToken" /\ prev.op = "clearToken") => last.ret = JsNull

C3_Witness ==
    /\ last.op = "getToken"
    /\ prev.op = "clearToken"
    /\ prev.before = Str("tokA")
    /\ last.ret = JsNull

\* the value a read of the token key must observe right after operation o
WrittenBy(o) == IF o.op = "setToken" THEN Str(JsToString(o.arg)) ELSE JsNull

\* C9: a getToken or an intercepted request in one tab that follows a setToken or
\* clearToken of another tab observes the value that tab wrote; no request carries
\* a token other than the one in storage when its interceptor runs.
C9_NoCopyAcrossTabs ==
    /\ (last.op = "getToken" /\ prev.op \in {"setToken", "clearToken"} /\ prev.tab # last.tab) =>
          last.ret = WrittenBy(prev)
    /\ (last.op = "request" /\ prev.op \in {"setToken", "clearToken"} /\ prev.tab # last.tab) =>
          IF ToBoolean(WrittenBy(prev))
          THEN /\ "Authorization" \in DOMAIN last.config.headers
               /\ last.config.headers["Authorization"] = "Bearer " \o WrittenBy(prev).s
          ELSE "Authorization" \notin DOMAIN last.config.headers
    /\ (last.op = "request" /\ "Authorization" \in DOMAIN last.config.headers) =>
          (HasToken /\ last.config.headers["Authorization"] = "Bearer " \o StoredToken)

C9_Witness ==
    /\ last.op = "request"
    /\ prev.op = "clearToken"
    /\ prev.tab # last.tab
    /\ got[last.tab] = Str("tokA")
    /\ prev.before = Str("tokA")
    /\ "Authorization" \notin DOMAIN last.config.headers

-----------------------------------------------------------------------------
(* Properties of the analysis demo (checked under SpecAnalyze and SpecCoerce) *)

Range(f) == {f[k] : k \in DOMAIN f}
CallIds == 1..Len(calls)
PostsOf(i) == {k \in DOMAIN posts : posts[k].call = i}
ErrorsOf(i) == {k \in DOMAIN console : console[k].level = "error" /\ console[k].call = i}

\* call i got a 2xx response whose parsed body lacks fra_analysis, recommendations
\* or recommendations.immediate_actions
GotLackingBody(i) ==
    /\ calls[i].response.kind = "response"
    /\ calls[i].response.status = 200
    /\ calls[i].response.body \in
          {JsNull, Obj([recommendations |-> RecOf(i)]), Obj([fra_analysis |-> FraOf(i)]),
           Obj([fra_analysis |-> FraOf(i), recommendations |-> Obj(NoProps)])}

\* call i's fetch was rejected or answered with a non-2xx status
FetchFailed(i) ==
    \/ calls[i].response.kind = "reject"
    \/ calls[i].response.kind = "response" /\ calls[i].response.status \in {404, 500}

\* C4 as stated: with the container present, a 2xx response lacking a rendered
\* field makes analyzeLocation end with an unhandled error (rejected promise,
\* nothing caught or logged).
C4_RenderErrorUnhandled ==
    \A i \in CallIds :
        (calls[i].pc = "done" /\ GotLackingBody(i) /\ hasContainer) =>
            /\ calls[i].promise = "rejected"
            /\ ErrorsOf(i) = {}

\* C4 amended: with the container present, the TypeError that displayResults
\* throws on a 2xx body lacking a rendered field is caught by analyzeLocation's
\* own catch block: it is logged, the container is not assigned, and the
\* promise of analyzeLocation is fulfilled.
C4_RenderErrorCaught ==
    \A i \in CallIds :
        (calls[i].pc = "done" /\ GotLackingBody(i) /\ hasContainer) =>
            /\ calls[i].displayed
            /\ calls[i].promise = "fulfilled"
            /\ Cardinality(ErrorsOf(i)) = 1
            /\ \A k \in ErrorsOf(i) : console[k].message = "TypeError"
            /\ i \notin Range(rendered)

C4_Witness ==
    \E i \in CallIds :
        /\ calls[i].pc = "done"
        /\ hasContainer
        /\ calls[i].response.kind = "response"
        /\ calls[i].response.body = Obj([recommendations |-> RecOf(i)])
        /\ calls[i].promise = "fulfilled"
        /\ ErrorsOf(i) # {}

\* a step in which a call whose fetch fails runs to its end
FailingStep ==
    \E i \in CallIds : calls[i].pc = "awaitFetch" /\ calls'[i].pc = "done"

\* C5: when the fetch is rejected or answered with a non-2xx status, the error
\* (carrying the status) is caught and logged inside analyzeLocation,
\* displayResults is not called, the container keeps its content, and no
\* further request is sent.
C5_FailureLoggedOnly ==
    /\ [](\A i \in CallIds : FetchFailed(i) =>
            /\ calls[i].pc = "done"
            /\ calls[i].promise = "fulfilled"
            /\ ~calls[i].displayed
            /\ i \notin Range(rendered)
            /\ Cardinality(ErrorsOf(i)) = 1
            /\ (calls[i].response.kind = "response" =>
                  \A k \in ErrorsOf(i) :
                      console[k].message =
                          (IF calls[i].response.status = 404
                           THEN "HTTP error! status: 404" ELSE "HTTP error! status: 500"))
            /\ Cardinality(PostsOf(i)) = 1)
    /\ [][FailingStep => (innerHTML' = innerHTML /\ rendered' = rendered /\ posts' = posts)]_vars

C5_Witness ==
    \E i \in CallIds :
        /\ calls[i].pc = "done"
        /\ calls[i].response.kind = "response"
        /\ calls[i].response.status = 500
        /\ rendered # <<>>
        /\ \E k \in ErrorsOf(i) : console[k].message = "HTTP error! status: 500"

\* C6: every invocation of analyzeLocation sends exactly one request, whatever
\* its outcome: a POST to the hardcoded endpoint whose only header is the JSON
\* content type, so without Authorization even while a token is stored.
C6_OneDirectPost ==
    /\ Len(posts) = Len(calls)
    /\ \A i \in CallIds :
          /\ Cardinality(PostsOf(i)) = 1
          /\ \A k \in PostsOf(i) :
                /\ posts[k].method = "POST"
                /\ posts[k].url = "http://127.0.0.1:5000/api/analyze"
                /\ DOMAIN posts[k].headers = {"Content-Type"}
                /\ posts[k].headers["Content-Type"] = "application/json"

C6_Witness ==
    /\ HasToken
    /\ Len(calls) = 2
    /\ calls[1].pc = "done" /\ calls[1].response.kind = "reject"
    /\ calls[2].pc = "done" /\ calls[2].response.kind = "response"
    /\ Len(posts) = 2
    /\ "Authorization" \notin DOMAIN posts[1].headers

\* C7: without a 'results-container' element displayResults does nothing and
\* throws nothing, also for a body that lacks fra_analysis or recommendations.
C7_NoContainerNoOp ==
    ~hasContainer =>
        /\ innerHTML = ""
        /\ rendered = <<>>
        /\ \A i \in CallIds : calls[i].displayed =>
              /\ calls[i].promise = "fulfilled"
              /\ ErrorsOf(i) = {}

C7_Witness ==
    /\ ~hasContainer
    /\ \E i \in CallIds :
          /\ calls[i].displayed
          /\ calls[i].pc = "done"
          /\ GotLackingBody(i)
          /\ calls[i].response.body = Obj([recommendations |-> RecOf(i)])

\* the JSON text expected for each input string: null for a string without a
\* leading number
ExpectedJson(s) ==
    CASE s = <<"2", "3", ".", "3", "4", "4", "1">> -> "23.3441"
      [] s = <<"2", ".", "0">> -> "2"
      [] s = <<"a", "b", "c">> -> "null"
      [] s = <<>> -> "null"
      [] s = <<"1", "2", "a">> -> "12"
      [] s = <<"-", ".", "5">> -> "-0.5"

\* C8: analyzeLocation validates nothing: for every combination of inputs the
\* POST is dispatched; an input without a number is coerced to NaN and sent as
\* null, the others are sent with their parsed values, under the keys latitude,
\* longitude and radius_km.
C8_NoValidation ==
    \A i \in CallIds :
        /\ Cardinality(PostsOf(i)) = 1
        /\ \A k \in PostsOf(i) :
              posts[k].body =
                  "{\"latitude\":" \o ExpectedJson(calls[i].args[1])
                  \o ",\"longitude\":" \o ExpectedJson(calls[i].args[2])
                  \o ",\"radius_km\":" \o ExpectedJson(calls[i].args[3]) \o "}"
        /\ \A a \in 1..3 :
              (calls[i].args[a] \in {<<"a", "b", "c">>, <<>>}) <=>
                  (<<calls[i].payload.latitude, calls[i].payload.longitude,
                     calls[i].payload.radius_km>>[a] = NaN)

C8_Witness ==
    /\ Len(calls) = 1
    /\ calls[1].args = << <<"a", "b", "c">>, <<"2", "3", ".", "3", "4", "4", "1">>, <<"2", ".", "0">> >>
    /\ Len(posts) = 1
    /\ posts[1].body = "{\"latitude\":null,\"longitude\":23.3441,\"radius_km\":2}"

\* call i got a 2xx response with a body that has the fields the renderer reads
Successful(i) ==
    /\ calls[i].response.kind = "response"
    /\ calls[i].response.status = 200
    /\ calls[i].response.body \in {FullBody(i), SparseBody}

\* the markup expected in the container after call i rendered
ExpectedHTML(i) ==
    IF calls[i].response.body = SparseBody
    THEN "<h2>Analysis Results</h2><p>Overall Suitability: undefined</p>"
         \o "<p>Total Score: undefined</p><h3>Recommendations</h3><ul></ul>"
    ELSE "<h2>Analysis Results</h2><p>Overall Suitability: High</p>"
         \o "<p>Total Score: " \o ToString(i) \o "</p><h3>Recommendations</h3>"
         \o "<ul><li>survey</li><li>verify</li></ul>"

\* C10: overlapping calls are not coordinated: N invocations send N POSTs, every
\* successful response overwrites the container when it is processed, so the
\* container shows the successful response processed last (whichever call it
\* answers), and a failed call never overwrites it.
C10_LastProcessedWins ==
    /\ Len(posts) = Len(calls)
    /\ \A i \in CallIds :
          /\ (calls[i].pc = "done" /\ Successful(i) /\ hasContainer) => i \in Range(rendered)
          /\ (calls[i].pc = "done" /\ ~Successful(i)) => i \notin Range(rendered)
    /\ hasContainer =>
          innerHTML = (IF rendered = <<>> THEN "<p>No analysis yet</p>"
                       ELSE ExpectedHTML(rendered[Len(rendered)]))

C10_Witness ==
    /\ Len(calls) = 2
    /\ calls[1].pc = "done" /\ calls[2].pc = "done"
    /\ calls[1].response = [kind |-> "response", status |-> 200, body |-> FullBody(1)]
    /\ calls[2].response = [kind |-> "response", status |-> 200, body |-> FullBody(2)]
    /\ rendered = <<2, 1>>
    /\ innerHTML = "<h2>Analysis Results</h2><p>Overall Suitability: High</p>"
                   \o "<p>Total Score: 1</p><h3>Recommendations</h3>"
                   \o "<ul><li>survey</li><li>verify</li></ul>"

====
